---- MODULE Spec2Model ----
(***************************************************************************)
(* A model of xblock/runtime.py: the KeyValueStore contract, the DbModel   *)
(* facade that turns (block, field name) accesses into scoped keys, the    *)
(* querypath lexer and parser of Runtime, and the active view name that    *)
(* Runtime.render keeps across nested calls.                               *)
(***************************************************************************)
EXTENDS Integers, Sequences, FiniteSets, TLC

VARIABLES
    kvs,          \* the store's contents: a function from keys to values
    unsupported,  \* the scopes the store's set rejects with InvalidScopeError
    writer,       \* history: for each stored key, the (block, name) that wrote it
    last,         \* the last operation: its arguments, the key it built, its outcome
    nops,         \* number of operations performed so far
    path,         \* querypath: the path string (a sequence of characters)
    q,            \* querypath: the navigation calls made on the query handle, in order
    state,        \* querypath: the parser state
    pos,          \* querypath: number of tokens consumed so far
    outcome,      \* querypath: "running", "returned" or the exception raised
    _view_name,   \* Runtime: the active view name
    frames,       \* Runtime: the render calls in progress, outermost first
    finished      \* history: the render call that has just finished, if any

vars == <<kvs, unsupported, writer, last, nops, path, q, state, pos, outcome,
          _view_name, frames, finished>>
facadeVars == <<kvs, unsupported, writer, last, nops>>
pathVars == <<path, q, state, pos, outcome>>
renderVars == <<_view_name, frames, finished>>

(***************************************************************************)
(* Bounds.                                                                 *)
(***************************************************************************)
\* Facade and store operations performed in one behaviour.
MaxOps == 3
\* Length of the enumerated path strings.
MaxPathLen == 4
\* Depth of nested render calls.
MaxDepth == 3

(***************************************************************************)
(* Scopes (xblock.core, imported at line 9).  A scope has a block          *)
(* dimension and a user dimension; children and parent are two sentinels.  *)
(***************************************************************************)
None == "None"
UNSET == "UNSET"

BlockScope == {"ALL", "USAGE", "DEFINITION", "TYPE"}

Scope(user, block) == [kind |-> "scope", user |-> user, block |-> block]
Scope_children == [kind |-> "children", user |-> FALSE, block |-> "NONE"]
Scope_parent == [kind |-> "parent", user |-> FALSE, block |-> "NONE"]

Scopes == {Scope(u, b) : u \in BOOLEAN, b \in BlockScope}
              \cup {Scope_children, Scope_parent}

(***************************************************************************)
(* The block classes the facade is exercised on.  A class attribute is     *)
(* either a field (a ModelType carrying a scope) or something else.        *)
(***************************************************************************)
Field(owner, scope) == [isfield |-> TRUE, owner |-> owner, scope |-> scope]
NotAField == [isfield |-> FALSE, owner |-> None, scope |-> Scope_parent]

\* T1 declares fields and two namespaces; T2 declares no namespaces attribute.
BlockTypes == {"T1", "T2"}

ClassAttrs(t) ==
    IF t = "T1"
    THEN [n \in {"content", "settings", "user_state", "children", "namespaces"} |->
            CASE n = "content" -> Field("T1", Scope(FALSE, "DEFINITION"))
              [] n = "settings" -> Field("T1", Scope(FALSE, "USAGE"))
              [] n = "user_state" -> Field("T1", Scope(TRUE, "USAGE"))
              [] n = "children" -> Field("T1", Scope_children)
              [] n = "namespaces" -> NotAField]
    ELSE [n \in {"content", "settings", "user_info"} |->
            CASE n = "content" -> Field("T2", Scope(TRUE, "DEFINITION"))
              [] n = "settings" -> Field("T2", Scope(FALSE, "USAGE"))
              [] n = "user_info" -> Field("T2", Scope(TRUE, "ALL"))]

HasNamespaces(t) == "namespaces" \in DOMAIN ClassAttrs(t)

Namespaces(t) == IF t = "T1" THEN <<"ns1", "ns2">> ELSE <<>>

NamespaceAttrs(ns) ==
    IF ns = "ns1"
    THEN [n \in {"prefs", "settings"} |->
            CASE n = "prefs" -> Field("ns1", Scope(TRUE, "TYPE"))
              [] n = "settings" -> Field("ns1", Scope(TRUE, "ALL"))]
    ELSE [n \in {"prefs", "parent", "tags", "about"} |->
            CASE n = "prefs" -> Field("ns2", Scope(FALSE, "ALL"))
              [] n = "parent" -> Field("ns2", Scope_parent)
              [] n = "tags" -> Field("ns2", Scope(FALSE, "TYPE"))
              [] n = "about" -> Field("ns2", Scope(FALSE, "ALL"))]

Names == {"content", "settings", "user_state", "children", "namespaces",
          "user_info", "prefs", "parent", "tags", "about"}

Values == {"v1", "v2"}

(***************************************************************************)
(* Blocks: a class and the scope_ids the host supplied.                    *)
(***************************************************************************)
Block(t, usage, def, student) ==
    [class |-> t,
     scope_ids |-> [usage_id |-> usage, def_id |-> def,
                    block_type |-> t, student_id |-> student]]

Blocks == {Block("T1", "u1", "d1", "s1"),
           Block("T1", "u1", "d1", "s2"),
           Block("T2", "u2", "d1", None)}

(***************************************************************************)
(* KeyValueStore.Key                                                       *)
(***************************************************************************)
Key(scope, student_id, block_scope_id, field_name) ==
    [scope |-> scope, student_id |-> student_id,
     block_scope_id |-> block_scope_id, field_name |-> field_name]

NoKey == Key(Scope_parent, None, None, None)

(***************************************************************************)
(* A store that keeps a key-to-value map behind the KeyValueStore          *)
(* interface.  Each operation yields the exception raised ("none" when it  *)
(* returns), the value returned and the store's contents afterwards.       *)
(***************************************************************************)
KvsRet(raised, value, store) == [raised |-> raised, value |-> value, store |-> store]

KeyValueStore_get(store, key) ==
    IF key \in DOMAIN store
    THEN KvsRet("none", store[key], store)
    ELSE KvsRet("KeyError", None, store)

KeyValueStore_set(store, rejects, key, value) ==
    IF key.scope \in rejects
    THEN KvsRet("InvalidScopeError", None, store)
    ELSE KvsRet("none", None, [k \in DOMAIN store \cup {key} |->
                                  IF k = key THEN value ELSE store[k]])

KeyValueStore_delete(store, key) ==
    KvsRet("none", None, [k \in DOMAIN store \ {key} |-> store[k]])

KeyValueStore_has(store, key) ==
    KvsRet("none", key \in DOMAIN store, store)

KeyValueStore_default(store, key) ==
    KvsRet("KeyError", None, store)

(***************************************************************************)
(* KeyValueStore.set_many: set, entry by entry, in the iteration order of  *)
(* update_dict.  items is that iteration: a sequence of <<key, value>>.    *)
(* An exception of set leaves the loop; done counts the entries applied.   *)
(***************************************************************************)
RECURSIVE SetManyLoop(_, _, _, _)
SetManyLoop(store, rejects, items, i) ==
    IF i > Len(items)
    THEN [raised |-> "none", store |-> store, done |-> i - 1]
    ELSE LET r == KeyValueStore_set(store, rejects, items[i][1], items[i][2])
         IN  IF r.raised # "none"
             THEN [raised |-> r.raised, store |-> r.store, done |-> i - 1]
             ELSE SetManyLoop(r.store, rejects, items, i + 1)

SetManyRollback(store, rejects, items) ==
    LET r == SetManyLoop(store, rejects, items, 1)
    IN  IF r.raised # "none"
        THEN [raised |-> r.raised, store |-> store, done |-> 0]
        ELSE r

KeyValueStore_set_many(store, rejects, items) ==
    SetManyLoop(store, rejects, items, 1)

(***************************************************************************)
(* DbModel._getfield: the field named name on the block's class, else in   *)
(* the first namespace, in declaration order, whose type has it.           *)
(***************************************************************************)
IsModelType(attrs, name) == name \in DOMAIN attrs /\ attrs[name].isfield

\* A loop that keeps going after a match, so that the last namespace wins.
RECURSIVE NamespaceLoopLastWins(_, _, _)
NamespaceLoopLastWins(namespaces, name, i) ==
    IF i > Len(namespaces)
    THEN [raised |-> "KeyError", field |-> NotAField]
    ELSE LET rest == NamespaceLoopLastWins(namespaces, name, i + 1)
         IN  IF rest.raised = "none"
             THEN rest
             ELSE IF IsModelType(NamespaceAttrs(namespaces[i]), name)
                  THEN [raised |-> "none",
                        field |-> NamespaceAttrs(namespaces[i])[name]]
                  ELSE rest

RECURSIVE NamespaceLoop(_, _, _)
NamespaceLoop(namespaces, name, i) ==
    IF i > Len(namespaces)
    THEN [raised |-> "KeyError", field |-> NotAField]
    ELSE IF IsModelType(NamespaceAttrs(namespaces[i]), name)
         THEN [raised |-> "none", field |-> NamespaceAttrs(namespaces[i])[name]]
         ELSE NamespaceLoop(namespaces, name, i + 1)

DbModel_getfield(block, name) ==
    IF IsModelType(ClassAttrs(block.class), name)
    THEN [raised |-> "none", field |-> ClassAttrs(block.class)[name]]
    ELSE IF ~HasNamespaces(block.class)
         THEN [raised |-> "KeyError", field |-> NotAField]
         ELSE NamespaceLoop(Namespaces(block.class), name, 1)

(***************************************************************************)
(* DbModel._key                                                            *)
(***************************************************************************)
BlockIdPseudoByDef(scope, scope_ids) ==
    IF scope \in {Scope_children, Scope_parent}
    THEN scope_ids.def_id
    ELSE CASE scope.block = "ALL" -> None
           [] scope.block = "USAGE" -> scope_ids.usage_id
           [] scope.block = "DEFINITION" -> scope_ids.def_id
           [] scope.block = "TYPE" -> scope_ids.block_type

BlockIdUsageByDef(scope, scope_ids) ==
    IF scope \in {Scope_children, Scope_parent}
    THEN scope_ids.usage_id
    ELSE CASE scope.block = "ALL" -> None
           [] scope.block = "USAGE" -> scope_ids.def_id
           [] scope.block = "DEFINITION" -> scope_ids.def_id
           [] scope.block = "TYPE" -> scope_ids.block_type

BlockId(scope, scope_ids) ==
    IF scope \in {Scope_children, Scope_parent}
    THEN scope_ids.usage_id
    ELSE CASE scope.block = "ALL" -> None
           [] scope.block = "USAGE" -> scope_ids.usage_id
           [] scope.block = "DEFINITION" -> scope_ids.def_id
           [] scope.block = "TYPE" -> scope_ids.block_type

StudentIdIgnoresUser(scope, scope_ids) ==
    IF scope \in {Scope_children, Scope_parent}
    THEN None
    ELSE scope_ids.student_id

StudentId(scope, scope_ids) ==
    IF scope \in {Scope_children, Scope_parent}
    THEN None
    ELSE IF scope.user THEN scope_ids.student_id ELSE None

DbModel_key(block, name) ==
    LET f == DbModel_getfield(block, name)
    IN  IF f.raised # "none"
        THEN [raised |-> f.raised, key |-> NoKey]
        ELSE [raised |-> "none",
              key |-> Key(f.field.scope,
                          StudentId(f.field.scope, block.scope_ids),
                          BlockId(f.field.scope, block.scope_ids),
                          name)]

(***************************************************************************)
(* The DbModel facade.  Each operation yields the exception raised, the    *)
(* value returned, the store afterwards, the store operations it invoked   *)
(* (calls), the key it built and the (key, name) pairs it wrote.           *)
(***************************************************************************)
Ret(raised, result, store, calls, key, wrote) ==
    [raised |-> raised, result |-> result, store |-> store,
     calls |-> calls, key |-> key, wrote |-> wrote]

\* The except clause of DbModel.get.
GetHandler(default, store, calls, key) ==
    IF default = UNSET
    THEN Ret("KeyError", None, store, calls, key, {})
    ELSE Ret("none", default, store, calls, key, {})

\* A get that asks the store for its default before giving up.
GetAsksStoreDefault(store, block, name, default) ==
    LET k == DbModel_key(block, name)
        handler(calls, key) ==
            IF default = UNSET
            THEN Ret(KeyValueStore_default(store, key).raised, None, store,
                     Append(calls, "default"), key, {})
            ELSE Ret("none", default, store, calls, key, {})
    IN  IF k.raised # "none"
        THEN handler(<<>>, NoKey)
        ELSE LET g == KeyValueStore_get(store, k.key)
             IN  IF g.raised = "KeyError"
                 THEN handler(<<"get">>, k.key)
                 ELSE Ret(g.raised, g.value, store, <<"get">>, k.key, {})

GetResolvesOutsideTry(store, block, name, default) ==
    LET k == DbModel_key(block, name)
    IN  IF k.raised # "none"
        THEN Ret(k.raised, None, store, <<>>, NoKey, {})
        ELSE LET g == KeyValueStore_get(store, k.key)
             IN  IF g.raised = "KeyError"
                 THEN GetHandler(default, store, <<"get">>, k.key)
                 ELSE Ret(g.raised, g.value, store, <<"get">>, k.key, {})

DbModel_get(store, block, name, default) ==
    LET k == DbModel_key(block, name)
    IN  IF k.raised # "none"
        THEN GetHandler(default, store, <<>>, NoKey)
        ELSE LET g == KeyValueStore_get(store, k.key)
             IN  IF g.raised = "KeyError"
                 THEN GetHandler(default, store, <<"get">>, k.key)
                 ELSE Ret(g.raised, g.value, store, <<"get">>, k.key, {})

SetNoWrite(store, rejects, block, name, value) ==
    LET k == DbModel_key(block, name)
    IN  IF k.raised # "none"
        THEN Ret(k.raised, None, store, <<>>, NoKey, {})
        ELSE Ret("none", None, store, <<>>, k.key, {})

DbModel_set(store, rejects, block, name, value) ==
    LET k == DbModel_key(block, name)
    IN  IF k.raised # "none"
        THEN Ret(k.raised, None, store, <<>>, NoKey, {})
        ELSE LET r == KeyValueStore_set(store, rejects, k.key, value)
             IN  Ret(r.raised, None, r.store, <<"set">>, k.key,
                     IF r.raised = "none"
                     THEN {[key |-> k.key, name |-> name]} ELSE {})

DeleteKeepsValue(store, block, name) ==
    LET k == DbModel_key(block, name)
    IN  IF k.raised # "none"
        THEN Ret(k.raised, None, store, <<>>, NoKey, {})
        ELSE Ret("none", None, store, <<"delete">>, k.key, {})

DbModel_delete(store, block, name) ==
    LET k == DbModel_key(block, name)
    IN  IF k.raised # "none"
        THEN Ret(k.raised, None, store, <<>>, NoKey, {})
        ELSE LET r == KeyValueStore_delete(store, k.key)
             IN  Ret(r.raised, None, r.store, <<"delete">>, k.key, {})

HasPropagates(store, block, name) ==
    LET k == DbModel_key(block, name)
    IN  IF k.raised # "none"
        THEN Ret(k.raised, None, store, <<>>, NoKey, {})
        ELSE LET r == KeyValueStore_has(store, k.key)
             IN  Ret(r.raised, r.value, store, <<"has">>, k.key, {})

DbModel_has(store, block, name) ==
    LET k == DbModel_key(block, name)
    IN  IF k.raised = "KeyError"
        THEN Ret("none", FALSE, store, <<>>, NoKey, {})
        ELSE LET r == KeyValueStore_has(store, k.key)
             IN  Ret(r.raised, r.value, store, <<"has">>, k.key, {})

DbModel_default(store, block, name) ==
    LET k == DbModel_key(block, name)
    IN  IF k.raised # "none"
        THEN Ret(k.raised, None, store, <<>>, NoKey, {})
        ELSE LET r == KeyValueStore_default(store, k.key)
             IN  Ret(r.raised, r.value, store, <<"default">>, k.key, {})

(***************************************************************************)
(* DbModel.set_many.  update is update_dict, a function from names to      *)
(* values.  Every name is turned into a key (the first loop), then the     *)
(* store's set_many is called once; order is the iteration order of the    *)
(* dict of keys so built, given as a sequence of the names.                *)
(***************************************************************************)
UpdatedDict(block, update, order) ==
    [i \in 1..Len(order) |->
        <<DbModel_key(block, order[i]).key, update[order[i]]>>]

RECURSIVE SetManyEager(_, _, _, _, _, _)
SetManyEager(store, rejects, block, update, order, i) ==
    IF i > Len(order)
    THEN Ret("none", None, store, <<"set">>, NoKey, {})
    ELSE LET k == DbModel_key(block, order[i])
         IN  IF k.raised # "none"
             THEN Ret(k.raised, None, store, <<"set">>, NoKey, {})
             ELSE SetManyEager(
                      KeyValueStore_set(store, rejects, k.key, update[order[i]]).store,
                      rejects, block, update, order, i + 1)

SetManyWriteAsResolved(store, rejects, block, update, order) ==
    SetManyEager(store, rejects, block, update, order, 1)

DbModel_set_many(store, rejects, block, update, order) ==
    IF \E n \in DOMAIN update : DbModel_key(block, n).raised # "none"
    THEN Ret("KeyError", None, store, <<>>, NoKey, {})
    ELSE LET items == UpdatedDict(block, update, order)
             r == KeyValueStore_set_many(store, rejects, items)
         IN  Ret(r.raised, None, r.store, <<"set_many">>, NoKey,
                 {[key |-> items[i][1], name |-> order[i]] : i \in 1..r.done})

(***************************************************************************)
(* RegexLexer.  A text is a sequence of one-character strings.  The regex  *)
(* is the alternation of the rules in the order given to the constructor:  *)
(* at a position the first rule that matches wins, \w+ is greedy, and      *)
(* finditer moves past a character at which no rule matches.               *)
(***************************************************************************)
WordChars == {"a", "b", "d", "i", "o", "r", "w", "_", "0"}
Newline == "\n"

LexerRules == <<"dotdot", "dot", "slashslash", "slash", "atword", "word", "err">>

At(text, i) == IF i >= 1 /\ i <= Len(text) THEN text[i] ELSE ""

\* Length of the longest run of word characters of text that starts at i.
RECURSIVE WordRun(_, _)
WordRun(text, i) ==
    IF At(text, i) \in WordChars THEN 1 + WordRun(text, i + 1) ELSE 0

\* Length of the match of rule at position i of text; 0 when it does not match.
MatchLen(rule, text, i) ==
    CASE rule = "dotdot" -> IF At(text, i) = "." /\ At(text, i + 1) = "." THEN 2 ELSE 0
      [] rule = "dot" -> IF At(text, i) = "." THEN 1 ELSE 0
      [] rule = "slashslash" -> IF At(text, i) = "/" /\ At(text, i + 1) = "/" THEN 2 ELSE 0
      [] rule = "slash" -> IF At(text, i) = "/" THEN 1 ELSE 0
      [] rule = "atword" -> IF At(text, i) = "@" /\ WordRun(text, i + 1) > 0
                            THEN 1 + WordRun(text, i + 1) ELSE 0
      [] rule = "word" -> WordRun(text, i)
      [] rule = "err" -> IF At(text, i) # Newline THEN 1 ELSE 0

\* Index of the first rule that matches at i; 0 when none does.
RECURSIVE FirstRule(_, _, _)
FirstRule(text, i, r) ==
    IF r > Len(LexerRules) THEN 0
    ELSE IF MatchLen(LexerRules[r], text, i) > 0 THEN r
         ELSE FirstRule(text, i, r + 1)

RECURSIVE LexFrom(_, _)
LexFrom(text, i) ==
    IF i > Len(text) THEN <<>>
    ELSE LET r == FirstRule(text, i, 1)
         IN  IF r = 0
             THEN LexFrom(text, i + 1)
             ELSE LET n == MatchLen(LexerRules[r], text, i)
                  IN  <<[name |-> LexerRules[r],
                         text |-> SubSeq(text, i, i + n - 1)]>>
                         \o LexFrom(text, i + n)

RegexLexer_lex(text) == LexFrom(text, 1)

(***************************************************************************)
(* Runtime.querypath: the body of the loop over the tokens.  The query     *)
(* handle is the sequence of navigation calls made on it.                  *)
(***************************************************************************)
ROOT == 0
SEP == 1
WORD == 2
FINAL == 3

Call(op, arg) == [op |-> op, arg |-> arg]

PRet(raised, st, qq) == [raised |-> raised, state |-> st, q |-> qq]

DotdotNoParent(st, qq) ==
    IF st = WORD THEN PRet("BadPath", st, qq)
    ELSE PRet("none", WORD, qq)

DotdotBranch(st, qq) ==
    IF st = WORD THEN PRet("BadPath", st, qq)
    ELSE PRet("none", WORD, Append(qq, Call("parent", <<>>)))

DotAnywhere(st, qq) ==
    PRet("none", WORD, qq)

DotBranch(st, qq) ==
    IF st = WORD THEN PRet("BadPath", st, qq)
    ELSE PRet("none", WORD, qq)

SlashslashFromRoot(st, qq) ==
    IF st = SEP THEN PRet("BadPath", st, qq)
    ELSE PRet("none", SEP, Append(qq, Call("descendants", <<>>)))

SlashslashNeedsSep(st, qq) ==
    IF st \in {SEP, WORD} THEN PRet("BadPath", st, qq)
    ELSE IF st = ROOT THEN PRet("NotImplementedError", st, qq)
    ELSE PRet("none", SEP, Append(qq, Call("descendants", <<>>)))

SlashslashBranch(st, qq) ==
    IF st = SEP THEN PRet("BadPath", st, qq)
    ELSE IF st = ROOT THEN PRet("NotImplementedError", st, qq)
    ELSE PRet("none", SEP, Append(qq, Call("descendants", <<>>)))

SlashFromRoot(st, qq) ==
    IF st = SEP THEN PRet("BadPath", st, qq)
    ELSE PRet("none", SEP, qq)

SlashBranch(st, qq) ==
    IF st = SEP THEN PRet("BadPath", st, qq)
    ELSE IF st = ROOT THEN PRet("NotImplementedError", st, qq)
    ELSE PRet("none", SEP, qq)

AtwordBranch(st, qq, toktext) ==
    IF st # SEP THEN PRet("BadPath", st, qq)
    ELSE PRet("none", FINAL, Append(qq, Call("attr", Tail(toktext))))

WordFromRoot(st, qq, toktext) ==
    IF st \notin {SEP, ROOT} THEN PRet("BadPath", st, qq)
    ELSE PRet("none", WORD,
              qq \o <<Call("children", <<>>), Call("tagged", toktext)>>)

WordBranch(st, qq, toktext) ==
    IF st # SEP THEN PRet("BadPath", st, qq)
    ELSE PRet("none", WORD,
              qq \o <<Call("children", <<>>), Call("tagged", toktext)>>)

ConsumeToken(st, qq, tok) ==
    CASE tok.name = "dotdot" -> DotdotBranch(st, qq)
      [] tok.name = "dot" -> DotBranch(st, qq)
      [] tok.name = "slashslash" -> SlashslashBranch(st, qq)
      [] tok.name = "slash" -> SlashBranch(st, qq)
      [] tok.name = "atword" -> AtwordBranch(st, qq, tok.text)
      [] tok.name = "word" -> WordBranch(st, qq, tok.text)
      [] OTHER -> PRet("BadPath", st, qq)

ConsumeNoFinalCheck(st, qq, tok) ==
    ConsumeToken(st, qq, tok)

Consume(st, qq, tok) ==
    IF st = FINAL
    THEN PRet("BadPath", st, qq)
    ELSE ConsumeToken(st, qq, tok)

\* The whole of querypath on the tokens from i on: the loop, then return q.
RECURSIVE ParseFrom(_, _, _, _)
ParseFrom(toks, i, st, qq) ==
    IF i > Len(toks)
    THEN PRet("returned", st, qq)
    ELSE LET r == Consume(st, qq, toks[i])
         IN  IF r.raised # "none" THEN r
             ELSE ParseFrom(toks, i + 1, r.state, r.q)

Runtime_querypath(text) == ParseFrom(RegexLexer_lex(text), 1, ROOT, <<>>)

(***************************************************************************)
(* Inputs of the operations.                                               *)
(***************************************************************************)
Defaults == {UNSET, "d0"}

\* The names the facade's operations are called with.
FacadeNames == {"settings", "user_state", "prefs", "namespaces"}

\* The sequences that list each element of the finite set S once.
Orders(S) ==
    {o \in [1..Cardinality(S) -> S] : \A i, j \in 1..Cardinality(S) : o[i] = o[j] => i = j}

NoUpdate == [n \in {} |-> None]

\* The dicts set_many is called with.
Updates ==
    {NoUpdate,
     [n \in {"settings"} |-> "v1"],
     [n \in {"namespaces"} |-> "v2"],
     [n \in {"settings", "user_state"} |-> IF n = "settings" THEN "v2" ELSE "v1"],
     [n \in {"prefs", "namespaces"} |-> "v1"]}

NoBlock == Block(None, None, None, None)

Op(op, block, name, value, default, update, order, pre, r) ==
    [op |-> op, block |-> block, name |-> name, value |-> value,
     default |-> default, update |-> update, order |-> order, pre |-> pre,
     raised |-> r.raised, result |-> r.result, calls |-> r.calls,
     key |-> r.key, wrote |-> r.wrote]

NoRet == Ret("none", None, NoUpdate, <<>>, NoKey, {})

NoOp == Op("init", NoBlock, None, None, UNSET, NoUpdate, <<>>, NoUpdate, NoRet)

\* The history of who wrote each key, after an operation by block that yields r.
Written(block, r) ==
    [k \in DOMAIN r.store |->
        IF \E w \in r.wrote : w.key = k
        THEN [block |-> block, name |-> (CHOOSE w \in r.wrote : w.key = k).name]
        ELSE writer[k]]

Done(block, r, op) ==
    /\ last.op # "call"
    /\ nops < MaxOps
    /\ kvs' = r.store
    /\ writer' = Written(block, r)
    /\ last' = op
    /\ nops' = nops + 1
    /\ UNCHANGED unsupported
    /\ UNCHANGED pathVars
    /\ UNCHANGED renderVars

(***************************************************************************)
(* The facade's operations.                                                *)
(***************************************************************************)
Get ==
    \E block \in Blocks, name \in FacadeNames, default \in Defaults :
        LET r == DbModel_get(kvs, block, name, default)
        IN  Done(block, r, Op("get", block, name, None, default, NoUpdate, <<>>, kvs, r))

Set ==
    \E block \in Blocks, name \in FacadeNames, value \in Values :
        LET r == DbModel_set(kvs, unsupported, block, name, value)
        IN  Done(block, r, Op("set", block, name, value, UNSET, NoUpdate, <<>>, kvs, r))

Delete ==
    \E block \in Blocks, name \in FacadeNames :
        LET r == DbModel_delete(kvs, block, name)
        IN  Done(block, r, Op("delete", block, name, None, UNSET, NoUpdate, <<>>, kvs, r))

Has ==
    \E block \in Blocks, name \in FacadeNames :
        LET r == DbModel_has(kvs, block, name)
        IN  Done(block, r, Op("has", block, name, None, UNSET, NoUpdate, <<>>, kvs, r))

Default ==
    \E block \in Blocks, name \in FacadeNames :
        LET r == DbModel_default(kvs, block, name)
        IN  Done(block, r, Op("default", block, name, None, UNSET, NoUpdate, <<>>, kvs, r))

SetMany ==
    \E block \in Blocks, update \in Updates :
        \E order \in Orders(DOMAIN update) :
            LET r == DbModel_set_many(kvs, unsupported, block, update, order)
            IN  Done(block, r,
                     Op("set_many", block, None, None, UNSET, update, order, kvs, r))

PathIdle ==
    /\ path = <<>>
    /\ q = <<>>
    /\ state = ROOT
    /\ pos = 0
    /\ outcome = "idle"

\* Runtime.__init__: no render call is in progress.
NoRender == [how |-> "none", view |-> None, before |-> None]

RenderIdle ==
    /\ _view_name = None
    /\ frames = <<>>
    /\ finished = NoRender

Init ==
    /\ kvs = NoUpdate
    /\ unsupported = {}
    /\ writer = NoUpdate
    /\ last = NoOp
    /\ nops = 0
    /\ PathIdle
    /\ RenderIdle

Next == Get \/ Set \/ Delete \/ Has \/ Default \/ SetMany

Spec == Init /\ [][Next]_vars

(***************************************************************************)
(* Key construction on its own: DbModel._key applied to a block and a      *)
(* name drawn from every identity and every name of the classes.           *)
(***************************************************************************)
AllBlocks ==
    {Block(t, u, d, s) : t \in BlockTypes, u \in {"u1", "u2"},
                         d \in {"d1", "d2"}, s \in {"s1", None}}

BuildKey ==
    /\ last.op = "call"
    /\ LET k == DbModel_key(last.block, last.name)
       IN  last' = Op("_key", last.block, last.name, None, UNSET, NoUpdate, <<>>, kvs,
                      Ret(k.raised, None, kvs, <<>>, k.key, {}))
    /\ UNCHANGED <<kvs, unsupported, writer, nops>>
    /\ UNCHANGED pathVars
    /\ UNCHANGED renderVars

KeyInit ==
    /\ kvs = NoUpdate
    /\ unsupported = {}
    /\ writer = NoUpdate
    /\ \E block \in AllBlocks, name \in Names :
          last = Op("call", block, name, None, UNSET, NoUpdate, <<>>, NoUpdate, NoRet)
    /\ nops = 0
    /\ PathIdle
    /\ RenderIdle

KeyNext == BuildKey

KeySpec == KeyInit /\ [][KeyNext]_vars

(***************************************************************************)
(* Runtime.querypath, token by token.  query(block) has returned the       *)
(* initial handle; each action is the loop body for one kind of token.     *)
(***************************************************************************)
PathChars == {".", "/", "@", "a", "#", Newline}

RECURSIVE Strings(_)
Strings(n) ==
    IF n = 0 THEN {<<>>}
    ELSE Strings(n - 1) \cup
         {Append(t, c) : t \in {t \in Strings(n - 1) : Len(t) = n - 1}, c \in PathChars}

SlashSlashRowAtId == <<"/", "/", "r", "o", "w", "/", "@", "i", "d">>
DotSlashSlashRowAtId == <<".">> \o SlashSlashRowAtId
ASlashSlashB == <<"a", "/", "/", "b">>
DotSlashASlashSlashB == <<".", "/">> \o ASlashSlashB

ExamplePaths ==
    {SlashSlashRowAtId, DotSlashSlashRowAtId, ASlashSlashB, DotSlashASlashSlashB}
        \cup {Append(DotSlashSlashRowAtId, c) : c \in PathChars \cup {"x"}}

Paths == Strings(MaxPathLen) \cup ExamplePaths

toks == RegexLexer_lex(path)

Token(name) ==
    /\ outcome = "running"
    /\ pos < Len(toks)
    /\ toks[pos + 1].name = name
    /\ LET r == Consume(state, q, toks[pos + 1])
       IN  IF r.raised = "none"
           THEN /\ state' = r.state
                /\ q' = r.q
                /\ pos' = pos + 1
                /\ UNCHANGED <<path, outcome>>
           ELSE /\ outcome' = r.raised
                /\ UNCHANGED <<path, q, state, pos>>
    /\ UNCHANGED facadeVars
    /\ UNCHANGED renderVars

Dotdot == Token("dotdot")

Dot == Token("dot")

Slashslash == Token("slashslash")

Slash == Token("slash")

Atword == Token("atword")

Word == Token("word")

Err == Token("err")

Return ==
    /\ outcome = "running"
    /\ pos = Len(toks)
    /\ outcome' = "returned"
    /\ UNCHANGED <<path, q, state, pos>>
    /\ UNCHANGED facadeVars
    /\ UNCHANGED renderVars

PathInit ==
    /\ kvs = NoUpdate
    /\ unsupported = {}
    /\ writer = NoUpdate
    /\ last = NoOp
    /\ nops = 0
    /\ path \in Paths
    /\ q = <<>>
    /\ state = ROOT
    /\ pos = 0
    /\ outcome = "running"
    /\ RenderIdle

PathNext == Dotdot \/ Dot \/ Slashslash \/ Slash \/ Atword \/ Word \/ Err \/ Return

PathSpec == PathInit /\ [][PathNext]_vars

(***************************************************************************)
(* The store on its own: set, delete and the default set_many called with  *)
(* keys, on a store that rejects the scopes in unsupported.                *)
(***************************************************************************)
KvsKeys ==
    {Key(Scope(FALSE, "USAGE"), None, "u1", "settings"),
     Key(Scope(TRUE, "USAGE"), "s1", "u1", "user_state"),
     Key(Scope(TRUE, "TYPE"), "s1", "T1", "prefs")}

KvsDicts == UNION {[D -> Values] : D \in SUBSET KvsKeys}

KvsDone(op, update, order, r, wrote) ==
    /\ nops < MaxOps
    /\ kvs' = r.store
    /\ UNCHANGED writer
    /\ last' = Op(op, NoBlock, None, None, UNSET, update, order, kvs,
                  Ret(r.raised, None, r.store, <<>>, NoKey, wrote))
    /\ nops' = nops + 1
    /\ UNCHANGED unsupported
    /\ UNCHANGED pathVars
    /\ UNCHANGED renderVars

KvsSet ==
    \E key \in KvsKeys, value \in Values :
        LET r == KeyValueStore_set(kvs, unsupported, key, value)
        IN  KvsDone("kvs_set", [k \in {key} |-> value], <<key>>, r,
                    IF r.raised = "none" THEN {key} ELSE {})

KvsDelete ==
    \E key \in KvsKeys :
        KvsDone("kvs_delete", NoUpdate, <<key>>, KeyValueStore_delete(kvs, key), {})

KvsSetMany ==
    \E update \in KvsDicts :
        \E order \in Orders(DOMAIN update) :
            LET items == [i \in 1..Len(order) |-> <<order[i], update[order[i]]>>]
                r == KeyValueStore_set_many(kvs, unsupported, items)
            IN  KvsDone("kvs_set_many", update, order, r,
                        {order[i] : i \in 1..r.done})

KvsInit ==
    /\ kvs = NoUpdate
    /\ unsupported \in {{}, {Scope(TRUE, "USAGE")}}
    /\ writer = NoUpdate
    /\ last = NoOp
    /\ nops = 0
    /\ PathIdle
    /\ RenderIdle

KvsNext == KvsSet \/ KvsDelete \/ KvsSetMany

KvsSpec == KvsInit /\ [][KvsNext]_vars

(***************************************************************************)
(* Runtime.render and render_child on one runtime.  A frame is one call of *)
(* render in progress: its view_name argument, its local old_view_name and *)
(* where it is: looking the view up, in the view, in block.save(), or in   *)
(* wrap_child.  A view may call render or render_child again.              *)
(***************************************************************************)
ViewNames == {"student_view", "author_view"}

\* entered_with is history: the active view name just before the call.
Frame(view_name, old_view_name, pc) ==
    [view_name |-> view_name, old_view_name |-> old_view_name,
     entered_with |-> old_view_name, pc |-> pc]

Top == frames[Len(frames)]

\* A finally clause that clears the active view name.
RestoreNone(frame) == None

\* The finally clause of render.
Restore(frame) == frame.old_view_name

\* Entry of render: save the active view name, then set it.
Enter(view_name) ==
    /\ Len(frames) < MaxDepth
    /\ IF frames = <<>> THEN TRUE ELSE Top.pc = "view"
    /\ frames' = Append(frames, Frame(view_name, _view_name, "lookup"))
    /\ _view_name' = view_name
    /\ finished' = NoRender
    /\ UNCHANGED facadeVars
    /\ UNCHANGED pathVars

\* render leaves, by return or by exception, through the finally clause.
Finish(how) ==
    /\ _view_name' = Restore(Top)
    /\ frames' = SubSeq(frames, 1, Len(frames) - 1)
    /\ finished' = [how |-> how, view |-> Top.view_name,
                    before |-> Top.entered_with]
    /\ UNCHANGED facadeVars
    /\ UNCHANGED pathVars

Goto(pc) ==
    /\ frames' = [frames EXCEPT ![Len(frames)].pc = pc]
    /\ finished' = NoRender
    /\ UNCHANGED _view_name
    /\ UNCHANGED facadeVars
    /\ UNCHANGED pathVars

Render == \E view_name \in ViewNames : Enter(view_name)

\* view_name or self._view_name
RenderChild ==
    \E view_name \in ViewNames \cup {None} :
        Enter(IF view_name = None THEN _view_name ELSE view_name)

\* The block has the view, or a fallback_view.
FindView ==
    /\ frames # <<>>
    /\ Top.pc = "lookup"
    /\ Top.view_name # None
    /\ Goto("view")

\* The block has neither.
RaiseNoSuchView ==
    /\ frames # <<>>
    /\ Top.pc = "lookup"
    /\ Top.view_name # None
    /\ Finish("NoSuchViewError")

\* getattr with a name that is None.
RaiseTypeError ==
    /\ frames # <<>>
    /\ Top.pc = "lookup"
    /\ Top.view_name = None
    /\ Finish("TypeError")

ViewReturns ==
    /\ frames # <<>>
    /\ Top.pc = "view"
    /\ Goto("save")

ViewRaises ==
    /\ frames # <<>>
    /\ Top.pc = "view"
    /\ Finish("view raised")

Save ==
    /\ frames # <<>>
    /\ Top.pc = "save"
    /\ Goto("wrap")

SaveRaises ==
    /\ frames # <<>>
    /\ Top.pc = "save"
    /\ Finish("save raised")

WrapChild ==
    /\ frames # <<>>
    /\ Top.pc = "wrap"
    /\ Finish("returned")

WrapChildRaises ==
    /\ frames # <<>>
    /\ Top.pc = "wrap"
    /\ Finish("wrap_child raised")

RenderInit ==
    /\ kvs = NoUpdate
    /\ unsupported = {}
    /\ writer = NoUpdate
    /\ last = NoOp
    /\ nops = 0
    /\ PathIdle
    /\ RenderIdle

RenderNext ==
    \/ Render \/ RenderChild
    \/ FindView \/ RaiseNoSuchView \/ RaiseTypeError
    \/ ViewReturns \/ ViewRaises
    \/ Save \/ SaveRaises
    \/ WrapChild \/ WrapChildRaises

RenderSpec == RenderInit /\ [][RenderNext]_vars

(***************************************************************************)
(* Properties.                                                             *)
(***************************************************************************)
Resolvable(block, name) == DbModel_getfield(block, name).raised = "none"

FieldScope(block, name) == DbModel_getfield(block, name).field.scope

IsPseudo(scope) == scope.kind \in {"children", "parent"}

\* C1: for a field whose scope is not children/parent, the key DbModel._key
\* builds has scope = the field's scope, field_name = the requested name,
\* block_scope_id = absent for ALL, usage_id for USAGE, def_id for DEFINITION,
\* block_type for TYPE, and student_id = the identity's student_id when the
\* scope is a user scope and absent when it is not, whatever the identity.
C1_KeyFollowsScope ==
    (last.op = "_key" /\ last.raised = "none"
        /\ ~IsPseudo(FieldScope(last.block, last.name))) =>
        LET sc == FieldScope(last.block, last.name)
            ids == last.block.scope_ids
        IN  /\ last.key.scope = sc
            /\ last.key.field_name = last.name
            /\ (sc.block = "ALL" => last.key.block_scope_id = None)
            /\ (sc.block = "USAGE" => last.key.block_scope_id = ids.usage_id)
            /\ (sc.block = "DEFINITION" => last.key.block_scope_id = ids.def_id)
            /\ (sc.block = "TYPE" => last.key.block_scope_id = ids.block_type)
            /\ (sc.user => last.key.student_id = ids.student_id)
            /\ (~sc.user => last.key.student_id = None)

\* A key was built for a field of scope (user = false, block = ALL) on a
\* block whose identity carries a student_id.
C1_Witness ==
    /\ last.op = "_key"
    /\ last.raised = "none"
    /\ FieldScope(last.block, last.name) = Scope(FALSE, "ALL")
    /\ last.block.scope_ids.student_id # None
    /\ last.key.student_id = None
    /\ last.key.block_scope_id = None

\* C2: set(c, x, v) immediately followed by get(c, x) returns v, for a
\* resolvable x, whatever operations preceded the set.
C2_SetThenGet ==
    (last.op = "set" /\ last.raised = "none") =>
        \A default \in Defaults :
            LET g == DbModel_get(kvs, last.block, last.name, default)
            IN  g.raised = "none" /\ g.result = last.value

\* The third operation of a behaviour was a set that replaced another value.
C2_Witness ==
    /\ last.op = "set"
    /\ last.raised = "none"
    /\ nops = MaxOps
    /\ last.key \in DOMAIN last.pre
    /\ last.pre[last.key] # last.value

\* C3: set, delete and set_many given a name that is not resolvable fail
\* with NotFound (KeyError) before any store operation is invoked and leave
\* the store as it was, also when set_many's mapping holds resolvable names.
C3_UnresolvableWritesNothing ==
    /\ (last.op \in {"set", "delete"} /\ ~Resolvable(last.block, last.name)) =>
          last.raised = "KeyError" /\ last.calls = <<>> /\ kvs = last.pre
    /\ (last.op = "set_many"
            /\ \E n \in DOMAIN last.update : ~Resolvable(last.block, n)) =>
          last.raised = "KeyError" /\ last.calls = <<>> /\ kvs = last.pre

\* set_many was called on a non-empty store with a mapping that holds a
\* resolvable and an unresolvable name, the resolvable one first.
C3_Witness ==
    /\ last.op = "set_many"
    /\ DOMAIN last.pre # {}
    /\ Len(last.order) = 2
    /\ Resolvable(last.block, last.order[1])
    /\ ~Resolvable(last.block, last.order[2])
    /\ last.raised = "KeyError"

Returned(calls) ==
    outcome = "returned" /\ q = calls

DescRowId ==
    <<Call("descendants", <<>>), Call("children", <<>>),
      Call("tagged", <<"r", "o", "w">>), Call("attr", <<"i", "d">>)>>

\* C4 as stated: compiling "//row/@id" from the initial parser state invokes
\* descendants(), children().tagged("row"), attr("id") and ends in FINAL,
\* returning the handle.
C4_Original ==
    (path = SlashSlashRowAtId /\ outcome # "running") =>
        Returned(DescRowId) /\ state = FINAL

\* C4 amended: "//row/@id" fails at its first token with NotImplementedError
\* and no navigation call; ".//row/@id" invokes descendants(), then
\* children().tagged("row"), then attr("id") and returns in state FINAL.
C4_DescendantsNeedsSelector ==
    /\ (path = SlashSlashRowAtId /\ outcome # "running") =>
          outcome = "NotImplementedError" /\ q = <<>> /\ pos = 0 /\ state = ROOT
    /\ (path = DotSlashSlashRowAtId /\ outcome # "running") =>
          Returned(DescRowId) /\ state = FINAL /\ pos = Len(toks)

\* ".//row/@id" has been compiled and returned.
C4_Witness ==
    path = DotSlashSlashRowAtId /\ outcome = "returned" /\ Len(q) = 4

\* The parse stopped with an exception at token i + 1, the tokens before it
\* having been consumed.
StoppedAfter(i) ==
    outcome \notin {"running", "returned"} /\ pos = i

\* The parse got past token i.
Passed(i) == pos >= i

\* C5 as stated: a slashslash token arriving right after a word token, in
\* state WORD, makes querypath fail with BadPath.
C5_Original ==
    \A i \in 1..(Len(toks) - 1) :
        (toks[i].name = "word" /\ toks[i + 1].name = "slashslash"
            /\ Passed(i) /\ outcome # "running") =>
            outcome = "BadPath" /\ pos = i

\* C5 amended: a slashslash arriving in state WORD is accepted, invokes
\* descendants() and leaves the parser in SEP; it is rejected with BadPath in
\* states SEP and FINAL only.  "a//b" fails with BadPath at its first token,
\* the word a, and "./a//b" compiles.
C5_SlashslashAfterWord ==
    /\ \A i \in 1..Len(toks) :
          (toks[i].name = "slashslash" /\ Passed(i)) =>
              /\ i > 1
              /\ toks[i - 1].name \in {"dot", "dotdot", "word"}
              /\ (pos = i => state = SEP /\ q[Len(q)] = Call("descendants", <<>>))
    /\ \A i \in 0..(Len(toks) - 1) :
          (toks[i + 1].name = "slashslash" /\ StoppedAfter(i) /\ i > 0) =>
              outcome = "BadPath" /\ state \in {SEP, FINAL}
    /\ (path = ASlashSlashB /\ outcome # "running") =>
          outcome = "BadPath" /\ pos = 0
    /\ (path = DotSlashASlashSlashB /\ outcome # "running") =>
          Returned(<<Call("children", <<>>), Call("tagged", <<"a">>),
                     Call("descendants", <<>>),
                     Call("children", <<>>), Call("tagged", <<"b">>)>>)

\* A slashslash that follows a word token has just been consumed.
C5_Witness ==
    /\ pos >= 2
    /\ toks[pos].name = "slashslash"
    /\ toks[pos - 1].name = "word"
    /\ state = SEP

\* C6 as stated: get(c, name, default = d) with a name that is not resolvable
\* fails with NotFound (KeyError) instead of returning d.
C6_Original ==
    (last.op = "get" /\ ~Resolvable(last.block, last.name)) =>
        last.raised = "KeyError"

\* C6 amended: get with an unresolvable name invokes no store operation and
\* returns the caller's default when one was given, failing with NotFound
\* only when none was; the default is returned exactly when field resolution
\* or the store's get reports NotFound.
C6_DefaultOnAnyNotFound ==
    last.op = "get" =>
        /\ ~Resolvable(last.block, last.name) =>
              /\ last.calls = <<>>
              /\ kvs = last.pre
              /\ (last.default = UNSET => last.raised = "KeyError")
              /\ (last.default # UNSET =>
                     last.raised = "none" /\ last.result = last.default)
        /\ (Resolvable(last.block, last.name) /\ last.key \in DOMAIN last.pre) =>
              last.raised = "none" /\ last.result = last.pre[last.key]
        /\ (Resolvable(last.block, last.name) /\ last.key \notin DOMAIN last.pre) =>
              /\ last.calls = <<"get">>
              /\ (last.default = UNSET => last.raised = "KeyError")
              /\ (last.default # UNSET =>
                     last.raised = "none" /\ last.result = last.default)

\* get was called with a default and a name the block's class does not have,
\* on a store that holds values.
C6_Witness ==
    /\ last.op = "get"
    /\ ~Resolvable(last.block, last.name)
    /\ last.default # UNSET
    /\ last.result = last.default
    /\ DOMAIN kvs # {}

\* The identifier the block dimension of scope selects from an identity.
SelectedId(scope, ids) ==
    CASE IsPseudo(scope) -> ids.usage_id
      [] scope.block = "USAGE" -> ids.usage_id
      [] scope.block = "DEFINITION" -> ids.def_id
      [] scope.block = "TYPE" -> ids.block_type
      [] OTHER -> None

\* C7: a value written through field f of block A is what a get through
\* field g of block B returns only if f and g are the same name, of the same
\* scope, A and B agree on the identifier the scope's block dimension selects
\* and, for a user scope, on student_id.
C7_NoCollision ==
    \A b \in Blocks, g \in FacadeNames :
        (Resolvable(b, g) /\ DbModel_key(b, g).key \in DOMAIN kvs) =>
            LET w == writer[DbModel_key(b, g).key]
                sw == FieldScope(w.block, w.name)
                sg == FieldScope(b, g)
            IN  /\ DbModel_get(kvs, b, g, UNSET).result = kvs[DbModel_key(w.block, w.name).key]
                /\ w.name = g
                /\ sw = sg
                /\ SelectedId(sw, w.block.scope_ids) = SelectedId(sg, b.scope_ids)
                /\ (sg.block = "USAGE" => w.block.scope_ids.usage_id = b.scope_ids.usage_id)
                /\ (~IsPseudo(sg) /\ sg.user =>
                       w.block.scope_ids.student_id = b.scope_ids.student_id)

\* One block has written a field that another block, of the same class,
\* resolves too but does not see; a third key is shared by two blocks.
C7_Witness ==
    /\ \E a, b \in Blocks, f \in FacadeNames :
          /\ a # b
          /\ a.class = b.class
          /\ Resolvable(a, f)
          /\ DbModel_key(a, f).key \in DOMAIN kvs
          /\ writer[DbModel_key(a, f).key] = [block |-> a, name |-> f]
          /\ DbModel_key(b, f).key \notin DOMAIN kvs
    /\ \E a, b \in Blocks, f \in FacadeNames :
          /\ a # b
          /\ Resolvable(a, f) /\ Resolvable(b, f)
          /\ DbModel_key(a, f).key \in DOMAIN kvs
          /\ DbModel_key(a, f).key = DbModel_key(b, f).key

\* C8: for a field of the children or the parent scope the key has
\* block_scope_id = the block's usage_id and student_id absent, whatever the
\* identity's student_id, def_id and block_type.
C8_PseudoScopeKey ==
    (last.op = "_key" /\ last.raised = "none"
        /\ IsPseudo(FieldScope(last.block, last.name))) =>
        /\ last.key.block_scope_id = last.block.scope_ids.usage_id
        /\ last.key.student_id = None
        /\ last.key.scope = FieldScope(last.block, last.name)
        /\ last.key.field_name = last.name

\* A key was built for the parent field of a block that carries a student_id.
C8_Witness ==
    /\ last.op = "_key"
    /\ last.raised = "none"
    /\ FieldScope(last.block, last.name) = Scope_parent
    /\ last.block.scope_ids.student_id # None
    /\ last.key.student_id = None

Front(t) == SubSeq(t, 1, Len(t) - 1)

\* The text is a path that compiles and whose last characters are an
\* attribute selector.
EndsInAttr(text) ==
    /\ Runtime_querypath(text).raised = "returned"
    /\ Runtime_querypath(text).state = FINAL
    /\ At(text, Len(text)) \in WordChars

FirstRejected(order) ==
    IF \E i \in 1..Len(order) : order[i].scope \in unsupported
    THEN CHOOSE i \in 1..Len(order) :
            /\ order[i].scope \in unsupported
            /\ \A j \in 1..(i - 1) : order[j].scope \notin unsupported
    ELSE 0

\* C10: the default set_many leaves the store as set, called once per entry
\* in iteration order, leaves it: when every set succeeds every entry is
\* written; when a set fails its exception is propagated, exactly the entries
\* before it are written, the others keep what they had, nothing is undone.
C10_SetManyIsSequentialSet ==
    last.op = "kvs_set_many" =>
        LET j == FirstRejected(last.order)
            applied == IF j = 0 THEN DOMAIN last.update
                       ELSE {last.order[i] : i \in 1..(j - 1)}
        IN  /\ last.raised = (IF j = 0 THEN "none" ELSE "InvalidScopeError")
            /\ DOMAIN kvs = DOMAIN last.pre \cup applied
            /\ \A k \in applied : kvs[k] = last.update[k]
            /\ \A k \in DOMAIN last.pre \ applied : kvs[k] = last.pre[k]

\* set_many failed at its second entry on a store that held the third: the
\* first entry was written over another value, the third kept its value.
C10_Witness ==
    /\ last.op = "kvs_set_many"
    /\ last.raised = "InvalidScopeError"
    /\ Len(last.order) = 3
    /\ FirstRejected(last.order) = 2
    /\ last.order[1] \in DOMAIN last.pre
    /\ last.pre[last.order[1]] # last.update[last.order[1]]
    /\ kvs[last.order[1]] = last.update[last.order[1]]
    /\ last.order[3] \in DOMAIN last.pre
    /\ kvs[last.order[3]] # last.update[last.order[3]]

\* C11: delete is idempotent: after delete(c, x) of a resolvable x, whatever
\* came before, a second delete(c, x) raises nothing and leaves the store as
\* the first left it, and has(c, x) is false.
C11_DeleteIdempotent ==
    (last.op = "delete" /\ Resolvable(last.block, last.name)) =>
        LET again == DbModel_delete(kvs, last.block, last.name)
            has == DbModel_has(again.store, last.block, last.name)
        IN  /\ last.raised = "none"
            /\ again.raised = "none"
            /\ again.store = kvs
            /\ has.raised = "none"
            /\ has.result = FALSE
            /\ DbModel_has(kvs, last.block, last.name).result = FALSE

\* The third operation of a behaviour was a delete that removed a stored
\* value and left another one in the store.
C11_Witness ==
    /\ last.op = "delete"
    /\ nops = MaxOps
    /\ last.key \in DOMAIN last.pre
    /\ last.key \notin DOMAIN kvs
    /\ DOMAIN kvs # {}

\* C12: has(c, name) returns false, raising nothing and leaving the store as
\* it was, for every name that is neither a field of c's class nor of any of
\* its namespaces.
C12_HasOfUnknownNameIsFalse ==
    (last.op = "has" /\ ~Resolvable(last.block, last.name)) =>
        /\ last.raised = "none"
        /\ last.result = FALSE
        /\ last.calls = <<>>
        /\ kvs = last.pre

\* has was called, on a store that holds values, with a name that is an
\* attribute of the class but no field and in no namespace.
C12_Witness ==
    /\ last.op = "has"
    /\ last.name \in DOMAIN ClassAttrs(last.block.class)
    /\ ~Resolvable(last.block, last.name)
    /\ last.raised = "none"
    /\ DOMAIN kvs # {}

\* C13: for a resolvable field get returns the stored value when the store
\* holds the key; when the store's get fails with NotFound it returns the
\* caller's default if one was given and raises NotFound otherwise; it never
\* invokes the store's default() and never changes the store.
C13_GetOfResolvableField ==
    (last.op = "get" /\ Resolvable(last.block, last.name)) =>
        /\ last.key = DbModel_key(last.block, last.name).key
        /\ last.calls = <<"get">>
        /\ kvs = last.pre
        /\ IF last.key \in DOMAIN last.pre
           THEN last.raised = "none" /\ last.result = last.pre[last.key]
           ELSE IF last.default = UNSET
                THEN last.raised = "KeyError"
                ELSE last.raised = "none" /\ last.result = last.default

\* get was called without a default for a resolvable field the store does
\* not hold, on a store that holds other values, and raised NotFound.
C13_Witness ==
    /\ last.op = "get"
    /\ Resolvable(last.block, last.name)
    /\ last.default = UNSET
    /\ last.raised = "KeyError"
    /\ DOMAIN kvs # {}

\* The positions, in declaration order, of the namespaces of class t that
\* have a field descriptor called name.
NamespacesWith(t, name) ==
    IF HasNamespaces(t)
    THEN {i \in 1..Len(Namespaces(t)) :
             IsModelType(NamespaceAttrs(Namespaces(t)[i]), name)}
    ELSE {}

FirstOf(S) == CHOOSE i \in S : \A j \in S : i <= j

\* C14: field resolution is order-sensitive: a descriptor on the class wins
\* over a same-named one in any namespace, among namespaces the first in
\* declaration order wins, the failure is KeyError exactly when neither the
\* class nor a declared namespace has the descriptor, and the key built for a
\* name carries the scope of that same descriptor on every call.
C14_ResolutionOrder ==
    last.op = "_key" =>
        LET t == last.block.class
            f == DbModel_getfield(last.block, last.name)
            onType == IsModelType(ClassAttrs(t), last.name)
            inNs == NamespacesWith(t, last.name)
        IN  /\ onType => f.raised = "none" /\ f.field = ClassAttrs(t)[last.name]
            /\ (~onType /\ inNs # {}) =>
                  /\ f.raised = "none"
                  /\ f.field = NamespaceAttrs(Namespaces(t)[FirstOf(inNs)])[last.name]
            /\ f.raised = "KeyError" <=> (~onType /\ inNs = {})
            /\ last.raised = "KeyError" <=> (~onType /\ inNs = {})
            /\ f.raised = "none" =>
                  /\ last.raised = "none"
                  /\ last.key.scope = f.field.scope
                  /\ \A other \in AllBlocks :
                        other.class = t =>
                            DbModel_getfield(other, last.name) = f

\* A key was built for a name that two namespaces declare and the class
\* does not: the scope is the first namespace's.
C14_Witness ==
    /\ last.op = "_key"
    /\ last.raised = "none"
    /\ ~IsModelType(ClassAttrs(last.block.class), last.name)
    /\ Cardinality(NamespacesWith(last.block.class, last.name)) = 2
    /\ last.key.scope = NamespaceAttrs(Namespaces(last.block.class)[1])[last.name].scope
    /\ last.key.scope # NamespaceAttrs(Namespaces(last.block.class)[2])[last.name].scope

\* querypath has stopped with an exception.
Failed == outcome \notin {"idle", "running", "returned"}

\* C15: a slash or slashslash as the first token makes querypath fail with an
\* error: no navigation operation has been invoked and no query is returned.
C15_LeadingSeparatorFails ==
    (outcome # "running" /\ Len(toks) >= 1
        /\ toks[1].name \in {"slash", "slashslash"}) =>
        /\ Failed
        /\ outcome = "NotImplementedError"
        /\ pos = 0
        /\ state = ROOT
        /\ q = <<>>

\* A path of several tokens that starts with a single slash has been refused.
C15_Witness ==
    /\ Failed
    /\ Len(toks) >= 2
    /\ toks[1].name = "slash"
    /\ q = <<>>

\* C16: querypath(block, "..") returns query(block).parent(): parent() is
\* invoked once and nothing else is.
C16_DotdotIsParent ==
    (path = <<".", ".">> /\ outcome # "running") =>
        /\ outcome = "returned"
        /\ pos = 1
        /\ q = <<Call("parent", <<>>)>>

\* querypath("..") has returned.
C16_Witness ==
    /\ path = <<".", ".">>
    /\ toks = <<[name |-> "dotdot", text |-> <<".", ".">>]>>
    /\ outcome = "returned"

\* C17: in state WORD the next token is accepted when it is a slash or a
\* slashslash and refused with BadPath when it is a dot, dotdot, word, atword
\* or err; a parse that stopped in state WORD stopped with BadPath on one of
\* those five.
C17_WordAcceptsOnlySeparators ==
    /\ (state = WORD /\ pos < Len(toks)) =>
          LET r == Consume(state, q, toks[pos + 1])
          IN  IF toks[pos + 1].name \in {"slash", "slashslash"}
              THEN r.raised = "none" /\ r.state = SEP
              ELSE /\ toks[pos + 1].name \in {"dot", "dotdot", "word", "atword", "err"}
                   /\ r = PRet("BadPath", state, q)
    /\ (state = WORD /\ Failed) =>
          /\ outcome = "BadPath"
          /\ toks[pos + 1].name \in {"dot", "dotdot", "word", "atword", "err"}

\* An atword that followed a word directly has been refused, after a parent
\* or a children/tagged step had been taken.
C17_Witness ==
    /\ state = WORD
    /\ outcome = "BadPath"
    /\ q # <<>>
    /\ toks[pos + 1].name = "atword"

\* The texts of the tokens ts, one after the other.
RECURSIVE TokenText(_)
TokenText(ts) ==
    IF ts = <<>> THEN <<>> ELSE ts[1].text \o TokenText(Tail(ts))

\* C18: the lexer covers the whole input: the tokens' texts concatenated are
\* the path, every err token is one character, and a path with a character
\* that belongs to no other token never returns a query.
C18_LexerCoversInput ==
    outcome # "running" =>
        /\ TokenText(toks) = path
        /\ \A i \in 1..Len(toks) : toks[i].name = "err" => Len(toks[i].text) = 1
        /\ (\E i \in 1..Len(path) : path[i] \in {"#", Newline}) =>
              outcome # "returned"

\* C19: querypath returns only for a path whose token sequence is empty or
\* starts with dot or dotdot; a first token that is a word, atword, slash,
\* slashslash or err is refused with an error before any navigation
\* operation.
C19_FirstTokenIsDotOrDotdot ==
    /\ outcome = "returned" =>
          Len(toks) = 0 \/ toks[1].name \in {"dot", "dotdot"}
    /\ (outcome # "running" /\ Len(toks) >= 1
          /\ toks[1].name \notin {"dot", "dotdot"}) =>
          /\ toks[1].name \in {"word", "atword", "slash", "slashslash", "err"}
          /\ outcome \in {"BadPath", "NotImplementedError"}
          /\ pos = 0
          /\ q = <<>>

\* A path that starts with a word has been refused with BadPath.
C19_Witness ==
    /\ Len(toks) >= 2
    /\ toks[1].name = "word"
    /\ outcome = "BadPath"
    /\ pos = 0

\* C20: when a render call finishes, by return or by exception, the active
\* view name is what it was just before that call; so it is None when no
\* render is in progress and otherwise the view_name of the innermost render
\* in progress.
C20_ViewNameRestored ==
    /\ finished # NoRender => _view_name = finished.before
    /\ frames = <<>> => _view_name = None
    /\ frames # <<>> => _view_name = Top.view_name
    /\ \A i \in 1..Len(frames) :
          frames[i].entered_with =
              IF i = 1 THEN None ELSE frames[i - 1].view_name

\* A render nested in the view of another, with another view name, has
\* left by NoSuchViewError and the outer view is running again.
C20_Witness ==
    /\ finished.how = "NoSuchViewError"
    /\ frames # <<>>
    /\ Top.pc = "view"
    /\ finished.view # Top.view_name
    /\ _view_name = Top.view_name

====
